---- MODULE Spec2Model ----
(***************************************************************************)
(* Credential and token lifecycle of the password-login template:         *)
(* registration and verification, login throttling, the per-user session  *)
(* nonce registry, bearer-token validation, and the password-reset token  *)
(* state machine.                                                          *)
(*                                                                         *)
(* Every request handler is split at its `await`s: one action per segment *)
(* that runs between two store operations.  The store is MongoDB driven   *)
(* through mongoose documents: findOne/findById return a private copy of  *)
(* the stored document; save() of a new document is an insert (refused by *)
(* a unique index on emailAddress); save() of a loaded document is an     *)
(* update of the document with that _id that writes only the paths the    *)
(* handler modified:                                                       *)
(*   - a scalar path is written with $set;                                 *)
(*   - array.push() is written with $push and increments the version key  *)
(*     __v without testing it;                                             *)
(*   - array.splice() and the assignment of an array are written with     *)
(*     $set of the whole array, test __v against the loaded version and   *)
(*     increment it; the save throws VersionError when no document        *)
(*     matches.                                                            *)
(*                                                                         *)
(* Time is a bounded integer clock in abstract units.  Secrets (passwords,*)
(* slugs, nonces, IP addresses) are positive integers, their salted       *)
(* hashes negative integers, null is 0.                                    *)
(***************************************************************************)
EXTENDS Integers, Sequences, FiniteSets, TLC

\* ------------------------------------------------------------- bounds
\* The clock runs from 1 to MaxTime.
MaxTime == 3
\* Number of login nonces csprng() hands out in one behaviour.
MaxNonces == 2
\* Number of user documents ever constructed (register calls that reach
\* `new userModel()`).
MaxUsers == 2
\* Number of password-token documents ever constructed.
MaxTokens == 2

\* ------------------------------------------------- program constants
\* MAX_LOGIN_ATTEMPTS default.
MaxLoginAttempts == 3
\* Lockout window, 1000 * 60 * 5 ms in the source; the clock unit of the
\* model is abstract and the durations are scaled down; the lockout
\* window stays the shortest of them.
LockoutWindow == 1
\* expires: 60 * 15 s on verificationExpiry, scaled.
UnverifiedUserExpiry == 2
\* expires: 60 * 15 s on authExpiry, scaled.
TokenExpiry == 2
\* date.setDate(date.getDate() + 2): a login token lives two days, scaled.
LoginTokenLife == 2

\* The concurrent request handlers.
Procs == {"p1", "p2"}
\* The email address the requests are about.
Emails == {"alice"}
Passwords == {1, 2}
IpAddresses == {1, 2}
\* Accounts are registered with the first password from the first address.
RegisterPasswords == {1}
RegisterIps == {1}
\* csprng() never repeats a value: the k-th login nonce is k, and the slug
\* generated for a document is the number of that document.  Requests may
\* present any of these values, issued or not.
Nonces == 1..MaxNonces
UserSlugs == 1..MaxUsers
TokenSlugs == 1..MaxTokens
\* The JavaScript null.
Null == 0

\* bcryptjs.hashSync: the stored hash is never the raw value.
Hash(raw) == 0 - raw
\* bcryptjs.compareSync(raw, hash).
CompareSync(raw, hash) == hash # Null /\ hash = Hash(raw)

VARIABLES
  now,        \* Date.now()
  users,      \* the `user` collection: a set of documents
  tokens,     \* the `password-token` collection: a set of documents
  jwts,       \* the login tokens signed so far (held by clients)
  nextSecret, \* next login nonce csprng() returns
  nextUserId, \* next _id of a constructed user document
  nextTokenId,\* next _id of a constructed password-token document
  pc,         \* per handler: the await it is suspended at
  local,      \* per handler: its local variables
  resp,       \* the response being sent, if any
  hist        \* history: per reset token, the successful calls made on it

vars == <<now, users, tokens, jwts, nextSecret, nextUserId, nextTokenId,
          pc, local, resp, hist>>

NoUser == [id |-> 0]
NoToken == [id |-> 0]
IdleLocal == [doc |-> NoUser, loaded |-> NoUser, mod |-> {}, atom |-> "none",
              tok |-> NoToken, email |-> "", arg |-> 0, nonce |-> 0,
              t0 |-> 0]

\* ------------------------------------------------------- store access
\* userModel.findOne({ emailAddress, verified }).
FindUsers(email, verified) ==
  {u \in users : u.emailAddress = email /\ u.verified = verified}
\* userModel.findOne({ emailAddress }).
FindUsersByEmail(email) == {u \in users : u.emailAddress = email}
\* userModel.findById(id).
FindUsersById(id) == {u \in users : u.id = id}
\* passTokenModel.findOne({ emailAddress }).
FindTokensByEmail(email) == {t \in tokens : t.emailAddress = email}
\* passTokenModel.findOne({ emailAddress, authenticated, spent }).
FindTokens(email, authenticated, spent) ==
  {t \in tokens : /\ t.emailAddress = email
                  /\ t.authenticated = authenticated
                  /\ t.spent = spent}

\* Assigning a path of a loaded document marks it modified only when the
\* value changes.  SetPath returns the document and its modified paths.
SetPath(dm, path, val) ==
  IF dm.doc[path] = val THEN dm
  ELSE [doc |-> [dm.doc EXCEPT ![path] = val], mod |-> dm.mod \cup {path}]
\* Assigning a freshly salted hash always changes the stored string.
SetFresh(dm, path, val) ==
  [doc |-> [dm.doc EXCEPT ![path] = val], mod |-> dm.mod \cup {path}]

\* The unique index { emailAddress: 1 } of the user schema.
UserIndexAllows(u) == FindUsersByEmail(u.emailAddress) = {}
\* The unique index { emailAddress: 1 } of the password-token schema.
TokenIndexAllows(t) == FindTokensByEmail(t.emailAddress) = {}

\* The $set part of an update: the stored document with the modified
\* scalar paths taken from the in-memory document.
ApplySet(stored, doc, mod) ==
  [f \in DOMAIN stored |-> IF f \in mod THEN doc[f] ELSE stored[f]]

\* Mutant: the update of a set array carries no version test.
UserUpdateMatchesAnyVersion(l) == FindUsersById(l.doc.id)
\* The update save() sends for a loaded user document.  atom tells how
\* loginNonces was changed in memory: "none", "push" ($push of the pushed
\* entries, __v incremented) or "set" ($set of the whole array, __v
\* tested and incremented).
UserUpdateMatches(l) ==
  {u \in FindUsersById(l.doc.id) : l.atom = "set" => u.v = l.loaded.v}
\* Mutant: save() writes the whole in-memory array after a push, and does
\* not add to the stored one.
UserUpdateOverwritesArray(stored, l) ==
  LET s == ApplySet(stored, l.doc, l.mod \ {"loginNonces"})
  IN  IF l.atom = "none" THEN s
      ELSE [s EXCEPT !.loginNonces = l.doc.loginNonces, !.v = stored.v + 1]
UserUpdate(stored, l) ==
  LET s == ApplySet(stored, l.doc, l.mod \ {"loginNonces"})
      pushed == SubSeq(l.doc.loginNonces, Len(l.loaded.loginNonces) + 1,
                       Len(l.doc.loginNonces))
  IN  IF l.atom = "push"
        THEN [s EXCEPT !.loginNonces = stored.loginNonces \o pushed,
                       !.v = stored.v + 1]
      ELSE IF l.atom = "set"
        THEN [s EXCEPT !.loginNonces = l.doc.loginNonces, !.v = stored.v + 1]
      ELSE s
\* The collection after save() of the loaded document of l.
SaveUser(l) ==
  {IF u \in UserUpdateMatches(l) THEN UserUpdate(u, l) ELSE u : u \in users}
\* Whether save() throws: a versioned save that matched nothing.
SaveUserThrows(l) == l.atom # "none" /\ UserUpdateMatches(l) = {}

\* passTokenModel documents by _id.
FindTokensById(id) == {t \in tokens : t.id = id}
\* The update save() sends for a loaded password token (scalar paths).
SaveToken(l) ==
  {IF t.id = l.tok.id THEN ApplySet(t, l.tok, l.mod) ELSE t : t \in tokens}

\* ---------------------------------------------------------- responses
\* asyncEndpoint: a returned { error } becomes its status, a returned
\* value 200, a thrown error goes to next(err) (status 500 here).  The
\* response is written by the step that ends the handler and leaves the
\* server in the step after it (Send); no other step comes between.
NoResp == [proc |-> "none"]
\* arg is the credential the request presented.  The handler's locals are
\* kept until the response has left.
Respond(p, op, arg, status, msg) ==
  resp' = [proc |-> p, op |-> op, arg |-> arg, status |-> status, msg |-> msg]
Finish(p) ==
  /\ pc' = [pc EXCEPT ![p] = "idle"]
  /\ UNCHANGED local
Goto(p, label, l) ==
  /\ pc' = [pc EXCEPT ![p] = label]
  /\ local' = [local EXCEPT ![p] = l]

\* ------------------------------------------------------------ virtuals
\* Mutant: the threshold compared with > instead of >=.
exceededLoginAttemptsOffByOne(u, t) ==
  t < u.loginAttemptsExpiry /\ u.loginAttempts > MaxLoginAttempts
\* schema.virtual('exceededLoginAttempts').
exceededLoginAttempts(u, t) ==
  t < u.loginAttemptsExpiry /\ u.loginAttempts >= MaxLoginAttempts
\* Mutant: the window is never seen as expired.
loginAttemptsExpiredNever(u, t) == FALSE
\* schema.virtual('loginAttemptsExpired').
loginAttemptsExpired(u, t) == t >= u.loginAttemptsExpiry
\* schema.methods.checkPassword.
checkPassword(u, password) ==
  IF u.passwordHash = Null THEN FALSE
  ELSE CompareSync(password, u.passwordHash)
\* schema.methods.checkVerification.
checkVerification(u, slug, ip) ==
  /\ CompareSync(slug, u.verificationSlugHash)
  /\ CompareSync(ip, u.verificationIpHash)
\* schema.methods.getLoginNonceIndex: position of the first matching
\* hash, -1 when none matches.
getLoginNonceIndex(u, nonce) ==
  LET hit == {i \in 1..Len(u.loginNonces) : CompareSync(nonce, u.loginNonces[i])}
  IN  IF hit = {} THEN -1
      ELSE CHOOSE i \in hit : \A j \in hit : i <= j
\* Mutant: slice instead of splice, which leaves the array as it was.
SpliceLikeSlice(s, i) == s
\* Array.prototype.splice(index, 1).
Splice(s, i) == SubSeq(s, 1, i - 1) \o SubSeq(s, i + 1, Len(s))
\* Mutant: check accepts every slug of a token that has a slug hash.
checkAcceptsAnySlug(t, slug) == t.authSlugHash # Null
\* schema.methods.check of the password token.
check(t, slug) == CompareSync(slug, t.authSlugHash)

\* ---------------------------------------------------------------- Init
Init ==
  /\ now = 1
  /\ users = {}
  /\ tokens = {}
  /\ jwts = {}
  /\ nextSecret = 1
  /\ nextUserId = 1
  /\ nextTokenId = 1
  /\ pc = [p \in Procs |-> "idle"]
  /\ local = [p \in Procs |-> IdleLocal]
  /\ resp = NoResp
  /\ hist = [i \in 1..MaxTokens |-> [auth |-> 0, change |-> 0]]

\* ------------------------------------------------------------ register
\* new userModel() with the schema defaults, generateVerification(ip),
\* emailAddress and setPassword(password).
NewUser(id, email, password, ip, slug, t) ==
  [id |-> id, emailAddress |-> email, passwordHash |-> Hash(password),
   loginAttempts |-> 0, loginAttemptsExpiry |-> t, loginNonces |-> <<>>,
   verified |-> FALSE, verificationSlugHash |-> Hash(slug),
   verificationIpHash |-> Hash(ip), verificationExpiry |-> t, v |-> 0]

\* register up to `await user.save()`: validation, the duplicate check,
\* the construction of the document.
RegisterStart(p) ==
  /\ pc[p] = "idle"
  /\ resp = NoResp
  /\ \E email \in Emails, password \in RegisterPasswords,
        ip \in RegisterIps, valid \in BOOLEAN :
       IF ~valid
         THEN /\ Respond(p, "register", ip, 400, "ValidationFailed")
              /\ Finish(p)
              /\ UNCHANGED nextUserId
       ELSE IF FindUsersByEmail(email) # {}
         THEN /\ Respond(p, "register", ip, 409, "Conflict")
              /\ Finish(p)
              /\ UNCHANGED nextUserId
       ELSE /\ nextUserId <= MaxUsers
            /\ Goto(p, "register_save",
                    [IdleLocal EXCEPT
                       !.doc = NewUser(nextUserId, email, password, ip,
                                       nextUserId, now),
                       !.arg = ip])
            /\ nextUserId' = nextUserId + 1
            /\ UNCHANGED resp
  /\ UNCHANGED <<now, users, tokens, jwts, nextSecret, nextTokenId, hist>>

\* `user = await user.save()`: the insert, refused by the unique index.
RegisterSave(p) ==
  /\ pc[p] = "register_save"
  /\ resp = NoResp
  /\ IF UserIndexAllows(local[p].doc)
       THEN /\ users' = users \cup {local[p].doc}
            /\ pc' = [pc EXCEPT ![p] = "register_mail"]
            /\ UNCHANGED <<local, resp>>
       ELSE /\ Respond(p, "register", local[p].arg, 500, "DuplicateKey")
            /\ Finish(p)
            /\ UNCHANGED users
  /\ UNCHANGED <<now, tokens, jwts, nextSecret, nextUserId, nextTokenId, hist>>

\* sendEmail.verifyAccount: delivered, or failed and `await user.remove()`.
RegisterMail(p) ==
  /\ pc[p] = "register_mail"
  /\ resp = NoResp
  /\ \E delivered \in BOOLEAN :
       IF delivered
         THEN /\ Respond(p, "register", local[p].arg, 200, "OK")
              /\ UNCHANGED users
         ELSE /\ users' = {u \in users : u.id # local[p].doc.id}
              /\ Respond(p, "register", local[p].arg, 500, "MailError")
  /\ Finish(p)
  /\ UNCHANGED <<now, tokens, jwts, nextSecret, nextUserId, nextTokenId, hist>>

\* Mutant: the query of verify without `verified: false`.
VerifyQueryAnyUser(email) == FindUsersByEmail(email)
\* Mutant: verify forgets to clear verificationExpiry.
VerifyAssignKeepsExpiry(u) ==
  SetPath(SetPath(SetPath([doc |-> u, mod |-> {}],
    "verified", TRUE), "verificationSlugHash", Null),
    "verificationIpHash", Null)
\* Mutant: the query of changePassword without `authenticated: true`.
ChangeQueryAnyUnspent(email) ==
  {t \in tokens : t.emailAddress = email /\ t.spent = FALSE}
\* -------------------------------------------------------------- verify
\* The query of verify: an un-verified user with that email address.
VerifyQuery(email) == FindUsers(email, FALSE)
\* The four assignments of verify.
VerifyAssign(u) ==
  SetPath(SetPath(SetPath(SetPath([doc |-> u, mod |-> {}],
    "verified", TRUE), "verificationExpiry", Null),
    "verificationSlugHash", Null), "verificationIpHash", Null)

\* verify up to `await user.save()`.
VerifyStart(p) ==
  /\ pc[p] = "idle"
  /\ resp = NoResp
  /\ \E email \in Emails, slug \in UserSlugs, ip \in IpAddresses :
       IF VerifyQuery(email) = {}
         THEN /\ Respond(p, "verify", <<slug, ip>>, 404, "NotFound")
              /\ Finish(p)
       ELSE \E u \in VerifyQuery(email) :
         IF ~checkVerification(u, slug, ip)
           THEN /\ Respond(p, "verify", <<slug, ip>>, 400, "VerificationFailed")
                /\ Finish(p)
         ELSE LET dm == VerifyAssign(u)
              IN  /\ Goto(p, "verify_save",
                          [IdleLocal EXCEPT !.doc = dm.doc, !.loaded = u,
                                            !.mod = dm.mod,
                                            !.arg = <<slug, ip>>])
                  /\ UNCHANGED resp
  /\ UNCHANGED <<now, users, tokens, jwts, nextSecret, nextUserId,
                 nextTokenId, hist>>

\* `await user.save()` of verify and the success message.  An update that
\* matches no document writes nothing; whether save() then throws
\* DocumentNotFoundError depends on the mongoose release.
VerifySave(p) ==
  /\ pc[p] = "verify_save"
  /\ resp = NoResp
  /\ users' = SaveUser(local[p])
  /\ \E throws \in BOOLEAN :
       IF throws /\ UserUpdateMatches(local[p]) = {}
         THEN Respond(p, "verify", local[p].arg, 500, "DocumentNotFound")
         ELSE Respond(p, "verify", local[p].arg, 200, "OK")
  /\ Finish(p)
  /\ UNCHANGED <<now, tokens, jwts, nextSecret, nextUserId, nextTokenId, hist>>

\* Mutant: the query of localLoginStrategy without `verified: true`.
LoginQueryAnyUser(email) == FindUsersByEmail(email)
\* --------------------------------------------------------------- login
\* The query of localLoginStrategy: a verified user with that address.
LoginQuery(email) == FindUsers(email, TRUE)
\* Mutant: the counter is not reset when the window has expired.
ResetIfExpiredNever(u, t) == [doc |-> u, mod |-> {}]
\* `else if (user.loginAttemptsExpired) user.loginAttempts = 0`.
ResetIfExpired(u, t) ==
  IF loginAttemptsExpired(u, t)
    THEN SetPath([doc |-> u, mod |-> {}], "loginAttempts", 0)
    ELSE [doc |-> u, mod |-> {}]
\* `user.loginAttempts++; user.resetLoginAttemptsExpiry()`.
RecordFailure(dm, t) ==
  SetPath(SetPath(dm, "loginAttempts", dm.doc.loginAttempts + 1),
          "loginAttemptsExpiry", t + LockoutWindow)
\* generateLoginNonce: push the hash of a fresh nonce.
generateLoginNonce(dm, nonce) ==
  [doc |-> [dm.doc EXCEPT !.loginNonces = Append(@, Hash(nonce))],
   mod |-> dm.mod \cup {"loginNonces"}]
\* jwt.sign({ id, exp, jti }).
LoginToken(id, t, nonce) == [id |-> id, exp |-> t + LoginTokenLife, jti |-> nonce]

\* Mutant: localLoginStrategy checks the password before the lockout.
LoginStartChecksPasswordFirst(p) ==
  /\ pc[p] = "idle"
  /\ resp = NoResp
  /\ \E email \in Emails, password \in Passwords :
       IF LoginQuery(email) = {}
         THEN /\ Respond(p, "login", password, 401, "BadCredentials")
              /\ Finish(p)
              /\ UNCHANGED nextSecret
       ELSE \E u \in LoginQuery(email) :
         IF ~checkPassword(u, password)
           THEN LET dm == RecordFailure(ResetIfExpired(u, now), now)
                IN  /\ Goto(p, "login_fail_save",
                            [IdleLocal EXCEPT !.doc = dm.doc, !.loaded = u,
                                              !.mod = dm.mod, !.arg = password,
                                              !.t0 = now])
                    /\ UNCHANGED <<resp, nextSecret>>
         ELSE IF exceededLoginAttempts(u, now)
           THEN /\ Respond(p, "login", password, 401, "LockedOut")
                /\ Finish(p)
                /\ UNCHANGED nextSecret
         ELSE LET dm == generateLoginNonce(ResetIfExpired(u, now), nextSecret)
              IN  /\ nextSecret <= MaxNonces
                  /\ Goto(p, "login_save",
                          [IdleLocal EXCEPT !.doc = dm.doc, !.loaded = u,
                                            !.mod = dm.mod, !.atom = "push",
                                            !.arg = password,
                                            !.nonce = nextSecret, !.t0 = now])
                  /\ nextSecret' = nextSecret + 1
                  /\ UNCHANGED resp
  /\ UNCHANGED <<now, users, tokens, jwts, nextUserId, nextTokenId, hist>>
\* localLoginStrategy and, when the password matches, login's callback
\* and generateLoginToken up to `await this.save()`.
LoginStart(p) ==
  /\ pc[p] = "idle"
  /\ resp = NoResp
  /\ \E email \in Emails, password \in Passwords :
       IF LoginQuery(email) = {}
         THEN /\ Respond(p, "login", password, 401, "BadCredentials")
              /\ Finish(p)
              /\ UNCHANGED nextSecret
       ELSE \E u \in LoginQuery(email) :
         IF exceededLoginAttempts(u, now)
           THEN /\ Respond(p, "login", password, 401, "LockedOut")
                /\ Finish(p)
                /\ UNCHANGED nextSecret
         ELSE IF checkPassword(u, password)
           THEN LET dm == generateLoginNonce(ResetIfExpired(u, now), nextSecret)
                IN  /\ nextSecret <= MaxNonces
                    /\ Goto(p, "login_save",
                            [IdleLocal EXCEPT !.doc = dm.doc, !.loaded = u,
                                              !.mod = dm.mod, !.atom = "push",
                                              !.arg = password,
                                              !.nonce = nextSecret, !.t0 = now])
                    /\ nextSecret' = nextSecret + 1
                    /\ UNCHANGED resp
         ELSE LET dm == RecordFailure(ResetIfExpired(u, now), now)
              IN  /\ Goto(p, "login_fail_save",
                          [IdleLocal EXCEPT !.doc = dm.doc, !.loaded = u,
                                            !.mod = dm.mod, !.arg = password,
                                            !.t0 = now])
                  /\ UNCHANGED <<resp, nextSecret>>
  /\ UNCHANGED <<now, users, tokens, jwts, nextUserId, nextTokenId, hist>>

\* `await this.save()` of generateLoginToken, then jwt.sign and the
\* response with the token.
LoginSave(p) ==
  /\ pc[p] = "login_save"
  /\ resp = NoResp
  /\ IF SaveUserThrows(local[p])
       THEN /\ Respond(p, "login", local[p].arg, 500, "VersionError")
            /\ UNCHANGED <<users, jwts>>
       ELSE /\ users' = SaveUser(local[p])
            /\ jwts' = jwts \cup {LoginToken(local[p].doc.id, local[p].t0,
                                             local[p].nonce)}
            /\ Respond(p, "login", local[p].arg, 200, "OK")
  /\ Finish(p)
  /\ UNCHANGED <<now, tokens, nextSecret, nextUserId, nextTokenId, hist>>

\* `await user.save()` after a wrong password, then the rejection.
LoginFailSave(p) ==
  /\ pc[p] = "login_fail_save"
  /\ resp = NoResp
  /\ users' = SaveUser(local[p])
  /\ \E throws \in BOOLEAN :
       IF throws /\ UserUpdateMatches(local[p]) = {}
         THEN Respond(p, "login", local[p].arg, 500, "DocumentNotFound")
         ELSE Respond(p, "login", local[p].arg, 401, "BadCredentials")
  /\ Finish(p)
  /\ UNCHANGED <<now, tokens, jwts, nextSecret, nextUserId, nextTokenId, hist>>

\* ----------------------------------------------------- checkLoginToken
\* The outcome of checkLoginToken for a bearer token: signed says whether
\* jwt.verify accepts its signature.  jwt.verify throws TokenExpiredError
\* when now >= exp; the catch block then reads payload.id while payload
\* is still null, which throws a TypeError before any store access.
checkLoginToken(token, signed) ==
  IF ~signed THEN "NotLoggedIn"
  ELSE IF now >= token.exp THEN "TypeError"
  ELSE IF \A u \in FindUsersById(token.id) : u.verified = FALSE
    THEN "NotLoggedIn"
  ELSE IF \A u \in FindUsersById(token.id) : getLoginNonceIndex(u, token.jti) = -1
    THEN "NotLoggedIn"
  ELSE "OK"
\* Mutant: removeLoginNonce drops every entry when one matches.
removeLoginNonceRemovesAll(u, nonce) ==
  IF getLoginNonceIndex(u, nonce) # -1
    THEN [u EXCEPT !.loginNonces = <<>>]
    ELSE u
\* removeLoginNonce.
removeLoginNonce(u, nonce) ==
  IF getLoginNonceIndex(u, nonce) # -1
    THEN [u EXCEPT !.loginNonces = Splice(@, getLoginNonceIndex(u, nonce))]
    ELSE u
\* removeAllLoginNonces.
removeAllLoginNonces(u) == [u EXCEPT !.loginNonces = <<>>]

Endpoints == {"validate", "logout", "logoutAll", "remove"}

\* requireLoginToken followed by the endpoint up to its first await:
\* "validate" stands for a protected route that only needs req.login.
AuthStart(p) ==
  /\ pc[p] = "idle"
  /\ resp = NoResp
  /\ \E token \in jwts, signed \in BOOLEAN, endpoint \in Endpoints,
        consent \in BOOLEAN :
       LET r == checkLoginToken(token, signed)
       IN  IF r = "TypeError"
             THEN /\ Respond(p, endpoint, <<token.jti, signed>>, 500, r)
                  /\ Finish(p)
           ELSE IF r # "OK"
             THEN /\ Respond(p, endpoint, <<token.jti, signed>>, 401, r)
                  /\ Finish(p)
           ELSE \E u \in FindUsersById(token.id) :
             IF endpoint = "validate"
               THEN /\ Respond(p, endpoint, <<token.jti, signed>>, 200, "OK")
                    /\ Finish(p)
             ELSE IF endpoint = "logout"
               THEN /\ Goto(p, "logout_save",
                            [IdleLocal EXCEPT
                               !.doc = removeLoginNonce(u, token.jti),
                               !.loaded = u, !.mod = {"loginNonces"},
                               !.atom = "set", !.arg = <<token.jti, signed>>])
                    /\ UNCHANGED resp
             ELSE IF endpoint = "logoutAll"
               THEN /\ Goto(p, "logout_all_save",
                            [IdleLocal EXCEPT
                               !.doc = removeAllLoginNonces(u),
                               !.loaded = u, !.mod = {"loginNonces"},
                               !.atom = "set", !.arg = <<token.jti, signed>>])
                    /\ UNCHANGED resp
             ELSE IF ~consent
               THEN /\ Respond(p, endpoint, <<token.jti, signed>>, 400, "ConsentRequired")
                    /\ Finish(p)
             ELSE /\ Goto(p, "remove_delete",
                          [IdleLocal EXCEPT !.doc = u, !.loaded = u,
                                            !.arg = <<token.jti, signed>>])
                  /\ UNCHANGED resp
  /\ UNCHANGED <<now, users, tokens, jwts, nextSecret, nextUserId,
                 nextTokenId, hist>>

\* `await user.save()` of logout.
LogoutSave(p) ==
  /\ pc[p] = "logout_save"
  /\ resp = NoResp
  /\ IF SaveUserThrows(local[p])
       THEN /\ Respond(p, "logout", local[p].arg, 500, "VersionError")
            /\ UNCHANGED users
       ELSE /\ users' = SaveUser(local[p])
            /\ Respond(p, "logout", local[p].arg, 200, "OK")
  /\ Finish(p)
  /\ UNCHANGED <<now, tokens, jwts, nextSecret, nextUserId, nextTokenId, hist>>

\* `await user.save()` of logoutAll.
LogoutAllSave(p) ==
  /\ pc[p] = "logout_all_save"
  /\ resp = NoResp
  /\ IF SaveUserThrows(local[p])
       THEN /\ Respond(p, "logoutAll", local[p].arg, 500, "VersionError")
            /\ UNCHANGED users
       ELSE /\ users' = SaveUser(local[p])
            /\ Respond(p, "logoutAll", local[p].arg, 200, "OK")
  /\ Finish(p)
  /\ UNCHANGED <<now, tokens, jwts, nextSecret, nextUserId, nextTokenId, hist>>

\* `await user.remove()` of remove.
RemoveDelete(p) ==
  /\ pc[p] = "remove_delete"
  /\ resp = NoResp
  /\ users' = {u \in users : u.id # local[p].doc.id}
  /\ Respond(p, "remove", local[p].arg, 200, "OK")
  /\ Finish(p)
  /\ UNCHANGED <<now, tokens, jwts, nextSecret, nextUserId, nextTokenId, hist>>

\* ------------------------------------------------------ password reset
\* new passTokenModel() with the schema defaults, generate() and
\* emailAddress.
NewToken(id, email, slug, t) ==
  [id |-> id, emailAddress |-> email, authenticated |-> FALSE,
   authSlugHash |-> Hash(slug), spent |-> FALSE, authExpiry |-> t]

\* The user lookup shared by the three reset handlers.
ResetUserQuery(email) == FindUsers(email, TRUE)

\* request: validation and the user lookup.
RequestStart(p) ==
  /\ pc[p] = "idle"
  /\ resp = NoResp
  /\ \E email \in Emails, valid \in BOOLEAN :
       IF ~valid
         THEN /\ Respond(p, "request", 0, 400, "ValidationFailed")
              /\ Finish(p)
       ELSE IF ResetUserQuery(email) = {}
         THEN /\ Respond(p, "request", 0, 404, "NotFound")
              /\ Finish(p)
       ELSE /\ Goto(p, "request_find", [IdleLocal EXCEPT !.email = email])
            /\ UNCHANGED resp
  /\ UNCHANGED <<now, users, tokens, jwts, nextSecret, nextUserId,
                 nextTokenId, hist>>

\* The query of request: any password token of that email address.
RequestQuery(email) == FindTokensByEmail(email)

\* request: the token lookup and the construction of the new token.
RequestFind(p) ==
  /\ pc[p] = "request_find"
  /\ resp = NoResp
  /\ IF RequestQuery(local[p].email) # {}
       THEN /\ Respond(p, "request", 0, 409, "Conflict")
            /\ Finish(p)
            /\ UNCHANGED nextTokenId
       ELSE /\ nextTokenId <= MaxTokens
            /\ Goto(p, "request_save",
                    [local[p] EXCEPT
                       !.tok = NewToken(nextTokenId, local[p].email,
                                        nextTokenId, now)])
            /\ nextTokenId' = nextTokenId + 1
            /\ UNCHANGED resp
  /\ UNCHANGED <<now, users, tokens, jwts, nextSecret, nextUserId, hist>>

\* `token = await token.save()`: the insert, refused by the unique index.
RequestSave(p) ==
  /\ pc[p] = "request_save"
  /\ resp = NoResp
  /\ IF TokenIndexAllows(local[p].tok)
       THEN /\ tokens' = tokens \cup {local[p].tok}
            /\ pc' = [pc EXCEPT ![p] = "request_mail"]
            /\ UNCHANGED <<local, resp>>
       ELSE /\ Respond(p, "request", 0, 500, "DuplicateKey")
            /\ Finish(p)
            /\ UNCHANGED tokens
  /\ UNCHANGED <<now, users, jwts, nextSecret, nextUserId, nextTokenId, hist>>

\* Mutant: request rethrows the mail error without removing the token.
RequestMailKeepsToken(p) ==
  /\ pc[p] = "request_mail"
  /\ resp = NoResp
  /\ \E delivered \in BOOLEAN :
       IF delivered
         THEN Respond(p, "request", 0, 200, "OK")
         ELSE Respond(p, "request", 0, 500, "MailError")
  /\ Finish(p)
  /\ UNCHANGED <<now, users, tokens, jwts, nextSecret, nextUserId,
                 nextTokenId, hist>>
\* sendEmail.verifyChangePassword: delivered, or failed and
\* `await token.remove()`.
RequestMail(p) ==
  /\ pc[p] = "request_mail"
  /\ resp = NoResp
  /\ \E delivered \in BOOLEAN :
       IF delivered
         THEN /\ Respond(p, "request", 0, 200, "OK")
              /\ UNCHANGED tokens
         ELSE /\ tokens' = {t \in tokens : t.id # local[p].tok.id}
              /\ Respond(p, "request", 0, 500, "MailError")
  /\ Finish(p)
  /\ UNCHANGED <<now, users, jwts, nextSecret, nextUserId, nextTokenId, hist>>

\* authenticate: the user lookup.
AuthenticateStart(p) ==
  /\ pc[p] = "idle"
  /\ resp = NoResp
  /\ \E email \in Emails, slug \in TokenSlugs :
       IF ResetUserQuery(email) = {}
         THEN /\ Respond(p, "authenticate", slug, 404, "NotFound")
              /\ Finish(p)
       ELSE /\ Goto(p, "authenticate_find",
                    [IdleLocal EXCEPT !.email = email, !.arg = slug])
            /\ UNCHANGED resp
  /\ UNCHANGED <<now, users, tokens, jwts, nextSecret, nextUserId,
                 nextTokenId, hist>>

\* Mutant: the query of authenticate without the two flags.
AuthenticateQueryAnyToken(email) == FindTokensByEmail(email)
\* The query of authenticate: an unauthenticated, unspent token.
AuthenticateQuery(email) == FindTokens(email, FALSE, FALSE)
\* `token.authenticated = true; token.authSlugHash = null`.
AuthenticateAssign(t) ==
  SetPath(SetPath([doc |-> t, mod |-> {}], "authenticated", TRUE),
          "authSlugHash", Null)

\* authenticate: the token lookup, the slug check and the assignments.
AuthenticateFind(p) ==
  /\ pc[p] = "authenticate_find"
  /\ resp = NoResp
  /\ IF AuthenticateQuery(local[p].email) = {}
       THEN /\ Respond(p, "authenticate", local[p].arg, 404, "NotFound")
            /\ Finish(p)
     ELSE \E t \in AuthenticateQuery(local[p].email) :
       IF ~check(t, local[p].arg)
         THEN /\ Respond(p, "authenticate", local[p].arg, 401, "Unauthorized")
              /\ Finish(p)
       ELSE LET dm == AuthenticateAssign(t)
            IN  /\ Goto(p, "authenticate_save",
                        [local[p] EXCEPT !.tok = dm.doc, !.mod = dm.mod])
                /\ UNCHANGED resp
  /\ UNCHANGED <<now, users, tokens, jwts, nextSecret, nextUserId,
                 nextTokenId, hist>>

\* `await token.save()` of authenticate and the success message.
AuthenticateSave(p) ==
  /\ pc[p] = "authenticate_save"
  /\ resp = NoResp
  /\ tokens' = SaveToken(local[p])
  /\ \E throws \in BOOLEAN :
       IF throws /\ FindTokensById(local[p].tok.id) = {}
         THEN /\ Respond(p, "authenticate", local[p].arg, 500, "DocumentNotFound")
              /\ UNCHANGED hist
         ELSE /\ Respond(p, "authenticate", local[p].arg, 200, "OK")
              /\ hist' = [hist EXCEPT ![local[p].tok.id].auth = @ + 1]
  /\ Finish(p)
  /\ UNCHANGED <<now, users, jwts, nextSecret, nextUserId, nextTokenId>>

\* changePassword: validation and the user lookup.
ChangeStart(p) ==
  /\ pc[p] = "idle"
  /\ resp = NoResp
  /\ \E email \in Emails, password \in Passwords, valid \in BOOLEAN :
       IF ~valid
         THEN /\ Respond(p, "changePassword", password, 400, "ValidationFailed")
              /\ Finish(p)
       ELSE IF ResetUserQuery(email) = {}
         THEN /\ Respond(p, "changePassword", password, 404, "NotFound")
              /\ Finish(p)
       ELSE \E u \in ResetUserQuery(email) :
              /\ Goto(p, "change_find",
                      [IdleLocal EXCEPT !.email = email, !.arg = password,
                                        !.doc = u, !.loaded = u])
              /\ UNCHANGED resp
  /\ UNCHANGED <<now, users, tokens, jwts, nextSecret, nextUserId,
                 nextTokenId, hist>>

\* The query of changePassword: an authenticated, unspent token.
ChangeQuery(email) == FindTokens(email, TRUE, FALSE)

\* changePassword: the token lookup and `token.spent = true`.
ChangeFind(p) ==
  /\ pc[p] = "change_find"
  /\ resp = NoResp
  /\ IF ChangeQuery(local[p].email) = {}
       THEN /\ Respond(p, "changePassword", local[p].arg, 404, "NotFound")
            /\ Finish(p)
     ELSE \E t \in ChangeQuery(local[p].email) :
       LET dm == SetPath([doc |-> t, mod |-> {}], "spent", TRUE)
       IN  /\ Goto(p, "change_token_save",
                   [local[p] EXCEPT !.tok = dm.doc, !.mod = dm.mod])
           /\ UNCHANGED resp
  /\ UNCHANGED <<now, users, tokens, jwts, nextSecret, nextUserId,
                 nextTokenId, hist>>

\* `await token.save()` of changePassword, then user.setPassword(password).
ChangeTokenSave(p) ==
  /\ pc[p] = "change_token_save"
  /\ resp = NoResp
  /\ tokens' = SaveToken(local[p])
  /\ \E throws \in BOOLEAN :
       IF throws /\ FindTokensById(local[p].tok.id) = {}
         THEN /\ Respond(p, "changePassword", local[p].arg, 500, "DocumentNotFound")
              /\ Finish(p)
         ELSE LET dm == SetFresh([doc |-> local[p].doc, mod |-> {}],
                                 "passwordHash", Hash(local[p].arg))
              IN  /\ Goto(p, "change_user_save",
                          [local[p] EXCEPT !.doc = dm.doc, !.mod = dm.mod])
                  /\ UNCHANGED resp
  /\ UNCHANGED <<now, users, jwts, nextSecret, nextUserId, nextTokenId, hist>>

\* `await user.save()` of changePassword and the success message.
ChangeUserSave(p) ==
  /\ pc[p] = "change_user_save"
  /\ resp = NoResp
  /\ users' = SaveUser(local[p])
  /\ \E throws \in BOOLEAN :
       IF throws /\ UserUpdateMatches(local[p]) = {}
         THEN /\ Respond(p, "changePassword", local[p].arg, 500, "DocumentNotFound")
              /\ UNCHANGED hist
         ELSE /\ Respond(p, "changePassword", local[p].arg, 200, "OK")
              /\ hist' = [hist EXCEPT ![local[p].tok.id].change = @ + 1]
  /\ Finish(p)
  /\ UNCHANGED <<now, tokens, jwts, nextSecret, nextUserId, nextTokenId>>

\* `await user.save()` of changePassword rejects (the store is unreachable
\* or refuses the write): the error leaves the handler, which has no
\* try/catch around the two saves, and nothing undoes token.save().
ChangeUserSaveFails(p) ==
  /\ pc[p] = "change_user_save"
  /\ resp = NoResp
  /\ Respond(p, "changePassword", local[p].arg, 500, "StoreError")
  /\ Finish(p)
  /\ UNCHANGED <<now, users, tokens, jwts, nextSecret, nextUserId,
                 nextTokenId, hist>>
\* ------------------------------------------------ the store's TTL reaper
\* TTL index on verificationExpiry: an unverified user is purged once
\* UnverifiedUserExpiry has passed (a null date never expires).
PurgeUser ==
  /\ resp = NoResp
  /\ \E u \in users :
       /\ u.verificationExpiry # Null
       /\ now >= u.verificationExpiry + UnverifiedUserExpiry
       /\ users' = users \ {u}
  /\ UNCHANGED <<now, tokens, jwts, nextSecret, nextUserId, nextTokenId,
                 pc, local, resp, hist>>

\* Mutant: the store marks an expired token spent instead of deleting it.
PurgeTokenLeavesTombstone ==
  /\ resp = NoResp
  /\ \E t \in tokens :
       /\ now >= t.authExpiry + TokenExpiry
       /\ ~t.spent
       /\ tokens' = (tokens \ {t}) \cup
                      {[t EXCEPT !.authenticated = TRUE, !.spent = TRUE,
                                 !.authSlugHash = Null]}
  /\ UNCHANGED <<now, users, jwts, nextSecret, nextUserId, nextTokenId,
                 pc, local, resp, hist>>
\* TTL index on authExpiry: a password token is purged once TokenExpiry
\* has passed, whatever its flags.
PurgeToken ==
  /\ resp = NoResp
  /\ \E t \in tokens :
       /\ now >= t.authExpiry + TokenExpiry
       /\ tokens' = tokens \ {t}
  /\ UNCHANGED <<now, users, jwts, nextSecret, nextUserId, nextTokenId,
                 pc, local, resp, hist>>

\* Time passes.
Tick ==
  /\ resp = NoResp
  /\ now < MaxTime
  /\ now' = now + 1
  /\ UNCHANGED <<users, tokens, jwts, nextSecret, nextUserId, nextTokenId,
                 pc, local, resp, hist>>

\* res.status(...).json(...): the pending response leaves the server.
Send ==
  /\ resp # NoResp
  /\ resp' = NoResp
  /\ local' = [local EXCEPT ![resp.proc] = IdleLocal]
  /\ UNCHANGED <<now, users, tokens, jwts, nextSecret, nextUserId,
                 nextTokenId, pc, hist>>

\* ------------------------------------------------------- specification
Next ==
  \/ Tick
  \/ Send
  \/ PurgeUser
  \/ PurgeToken
  \/ \E p \in Procs : RegisterStart(p)
  \/ \E p \in Procs : RegisterSave(p)
  \/ \E p \in Procs : RegisterMail(p)
  \/ \E p \in Procs : VerifyStart(p)
  \/ \E p \in Procs : VerifySave(p)
  \/ \E p \in Procs : LoginStart(p)
  \/ \E p \in Procs : LoginSave(p)
  \/ \E p \in Procs : LoginFailSave(p)
  \/ \E p \in Procs : AuthStart(p)
  \/ \E p \in Procs : LogoutSave(p)
  \/ \E p \in Procs : LogoutAllSave(p)
  \/ \E p \in Procs : RemoveDelete(p)
  \/ \E p \in Procs : RequestStart(p)
  \/ \E p \in Procs : RequestFind(p)
  \/ \E p \in Procs : RequestSave(p)
  \/ \E p \in Procs : RequestMail(p)
  \/ \E p \in Procs : AuthenticateStart(p)
  \/ \E p \in Procs : AuthenticateFind(p)
  \/ \E p \in Procs : AuthenticateSave(p)
  \/ \E p \in Procs : ChangeStart(p)
  \/ \E p \in Procs : ChangeFind(p)
  \/ \E p \in Procs : ChangeTokenSave(p)
  \/ \E p \in Procs : ChangeUserSave(p)
  \/ \E p \in Procs : ChangeUserSaveFails(p)

Spec == Init /\ [][Next]_vars

\* The state after register and verify of one account at time 1: the
\* user is verified, nobody is logged in, no reset token exists.
InitVerified ==
  /\ now = 1
  /\ users = {[NewUser(1, "alice", 1, 1, 1, 1) EXCEPT
                 !.verified = TRUE, !.verificationExpiry = Null,
                 !.verificationSlugHash = Null, !.verificationIpHash = Null]}
  /\ tokens = {}
  /\ jwts = {}
  /\ nextSecret = 1
  /\ nextUserId = 2
  /\ nextTokenId = 1
  /\ pc = [p \in Procs |-> "idle"]
  /\ local = [p \in Procs |-> IdleLocal]
  /\ resp = NoResp
  /\ hist = [i \in 1..MaxTokens |-> [auth |-> 0, change |-> 0]]

\* Sessions of a verified account: login, token validation, logout,
\* logout-all, account deletion.
NextSession ==
  \/ Tick
  \/ Send
  \/ \E p \in Procs : LoginStart(p)
  \/ \E p \in Procs : LoginSave(p)
  \/ \E p \in Procs : LoginFailSave(p)
  \/ \E p \in Procs : AuthStart(p)
  \/ \E p \in Procs : LogoutSave(p)
  \/ \E p \in Procs : LogoutAllSave(p)
  \/ \E p \in Procs : RemoveDelete(p)

SpecSession == InitVerified /\ [][NextSession]_vars

\* Logins only.
NextLogin ==
  \/ Tick
  \/ Send
  \/ \E p \in Procs : LoginStart(p)
  \/ \E p \in Procs : LoginSave(p)
  \/ \E p \in Procs : LoginFailSave(p)

SpecLogin == InitVerified /\ [][NextLogin]_vars

\* Password reset of a verified account.
NextReset ==
  \/ Tick
  \/ Send
  \/ PurgeToken
  \/ \E p \in Procs : RequestStart(p)
  \/ \E p \in Procs : RequestFind(p)
  \/ \E p \in Procs : RequestSave(p)
  \/ \E p \in Procs : RequestMail(p)
  \/ \E p \in Procs : AuthenticateStart(p)
  \/ \E p \in Procs : AuthenticateFind(p)
  \/ \E p \in Procs : AuthenticateSave(p)
  \/ \E p \in Procs : ChangeStart(p)
  \/ \E p \in Procs : ChangeFind(p)
  \/ \E p \in Procs : ChangeTokenSave(p)
  \/ \E p \in Procs : ChangeUserSave(p)

SpecReset == InitVerified /\ [][NextReset]_vars

\* Account lifecycle from the empty store: registration, verification
\* and the purge of unverified accounts.
NextAccount ==
  \/ Tick
  \/ Send
  \/ PurgeUser
  \/ \E p \in Procs : RegisterStart(p)
  \/ \E p \in Procs : RegisterSave(p)
  \/ \E p \in Procs : RegisterMail(p)
  \/ \E p \in Procs : VerifyStart(p)
  \/ \E p \in Procs : VerifySave(p)

SpecAccount == Init /\ [][NextAccount]_vars

\* Calls that send mail, from the empty store: registration, verification
\* and the request of a password reset, with both purges.
NextMail ==
  \/ Tick
  \/ Send
  \/ PurgeUser
  \/ PurgeToken
  \/ \E p \in Procs : RegisterStart(p)
  \/ \E p \in Procs : RegisterSave(p)
  \/ \E p \in Procs : RegisterMail(p)
  \/ \E p \in Procs : VerifyStart(p)
  \/ \E p \in Procs : VerifySave(p)
  \/ \E p \in Procs : RequestStart(p)
  \/ \E p \in Procs : RequestFind(p)
  \/ \E p \in Procs : RequestSave(p)
  \/ \E p \in Procs : RequestMail(p)

SpecMail == Init /\ [][NextMail]_vars

\* Password reset of a verified account when the second write of
\* changePassword may fail.
NextChange ==
  \/ NextReset
  \/ \E p \in Procs : ChangeUserSaveFails(p)

SpecChange == InitVerified /\ [][NextChange]_vars
\* The state after two logins of the verified account at time 1: two
\* nonces are stored, two tokens are held by clients.
InitTwoSessions ==
  /\ now = 1
  /\ users = {[NewUser(1, "alice", 1, 1, 1, 1) EXCEPT
                 !.verified = TRUE, !.verificationExpiry = Null,
                 !.verificationSlugHash = Null, !.verificationIpHash = Null,
                 !.loginNonces = <<Hash(1), Hash(2)>>, !.v = 2]}
  /\ tokens = {}
  /\ jwts = {LoginToken(1, 1, 1), LoginToken(1, 1, 2)}
  /\ nextSecret = 3
  /\ nextUserId = 2
  /\ nextTokenId = 1
  /\ pc = [p \in Procs |-> "idle"]
  /\ local = [p \in Procs |-> IdleLocal]
  /\ resp = NoResp
  /\ hist = [i \in 1..MaxTokens |-> [auth |-> 0, change |-> 0]]

\* The protected routes of an account that is logged in on two devices.
NextLogout ==
  \/ Tick
  \/ Send
  \/ \E p \in Procs : AuthStart(p)
  \/ \E p \in Procs : LogoutSave(p)
  \/ \E p \in Procs : LogoutAllSave(p)
  \/ \E p \in Procs : RemoveDelete(p)

SpecLogout == InitTwoSessions /\ [][NextLogout]_vars
\* Registration, verification and login from the empty store: one client
\* signs up and verifies while the other one logs in.
NextSignup ==
  \/ Tick
  \/ Send
  \/ PurgeUser
  \/ RegisterStart("p1")
  \/ RegisterSave("p1")
  \/ RegisterMail("p1")
  \/ VerifyStart("p1")
  \/ VerifySave("p1")
  \/ LoginStart("p2")
  \/ LoginSave("p2")
  \/ LoginFailSave("p2")

SpecSignup == Init /\ [][NextSignup]_vars

\* ------------------------------------------- the nonce registry alone
\* The methods of the nonce registry applied to a document in memory,
\* without the store.  The verified user starts with no session or with
\* one session of a nonce issued earlier.
InitNonce ==
  /\ now = 1
  /\ \E issued \in {<<>>} \cup {<<Hash(n)>> : n \in Nonces} :
       users = {[NewUser(1, "alice", 1, 1, 1, 1) EXCEPT
                   !.verified = TRUE, !.verificationExpiry = Null,
                   !.verificationSlugHash = Null,
                   !.verificationIpHash = Null,
                   !.loginNonces = issued, !.v = Len(issued)]}
  /\ tokens = {}
  /\ jwts = {}
  /\ nextSecret = 1
  /\ nextUserId = 2
  /\ nextTokenId = 1
  /\ pc = [p \in Procs |-> "idle"]
  /\ local = [p \in Procs |-> IdleLocal]
  /\ resp = NoResp
  /\ hist = [i \in 1..MaxTokens |-> [auth |-> 0, change |-> 0]]

\* user.generateLoginNonce() on a loaded document: csprng() returns a
\* nonce that was not issued before.
NonceGenerate(p) ==
  /\ pc[p] = "idle"
  /\ \E u \in users, nonce \in Nonces :
       /\ getLoginNonceIndex(u, nonce) = -1
       /\ Goto(p, "nonce_generated",
               [IdleLocal EXCEPT
                  !.doc = generateLoginNonce([doc |-> u, mod |-> {}], nonce).doc,
                  !.loaded = u, !.nonce = nonce])
  /\ UNCHANGED <<now, users, tokens, jwts, nextSecret, nextUserId,
                 nextTokenId, resp, hist>>

\* user.removeLoginNonce(nonce) on the document after generateLoginNonce.
NonceRemove(p) ==
  /\ pc[p] = "nonce_generated"
  /\ \E nonce \in Nonces :
       Goto(p, "nonce_removed",
            [local[p] EXCEPT !.doc = removeLoginNonce(local[p].doc, nonce),
                             !.arg = nonce])
  /\ UNCHANGED <<now, users, tokens, jwts, nextSecret, nextUserId,
                 nextTokenId, resp, hist>>

\* user.removeLoginNonce(nonce) on a document as loaded.
NonceRemoveLoaded(p) ==
  /\ pc[p] = "idle"
  /\ \E u \in users, nonce \in Nonces :
       Goto(p, "nonce_removed",
            [IdleLocal EXCEPT !.doc = removeLoginNonce(u, nonce),
                              !.loaded = u, !.arg = nonce])
  /\ UNCHANGED <<now, users, tokens, jwts, nextSecret, nextUserId,
                 nextTokenId, resp, hist>>

NextNonce ==
  \/ \E p \in Procs : NonceGenerate(p)
  \/ \E p \in Procs : NonceRemove(p)
  \/ \E p \in Procs : NonceRemoveLoaded(p)

SpecNonce == InitNonce /\ [][NextNonce]_vars
\* ============================================================== claims
AllIdle == \A p \in Procs : pc[p] = "idle"
\* The verified users that are locked out now.
LockedOutUsers ==
  {u \in users : /\ u.verified
                 /\ now < u.loginAttemptsExpiry
                 /\ u.loginAttempts >= MaxLoginAttempts}
\* This step is the first step of a login request handled by p.
LoginBegins(p) ==
  /\ pc[p] = "idle"
  /\ resp = NoResp
  /\ \/ pc'[p] \in {"login_save", "login_fail_save"}
     \/ resp' # NoResp /\ resp'.proc = p /\ resp'.op = "login"
\* The login nonces of the stored users, by user.
StoredNonces == {<<u.id, u.loginNonces>> : u \in users}

\* C1: once the stored counter of a verified user has reached maxAttempts
\* inside the lockout window, a login attempt made while
\* now < loginAttemptsExpiry is rejected as locked out whatever password it
\* presents; it writes nothing, adds no session nonce and issues no token,
\* and while no earlier login is still in flight no nonce is added and no
\* token is issued at all until the window has elapsed.
C1_LockedOutRejectsLogin ==
  [][/\ \A p \in Procs :
          (LoginBegins(p) /\ LockedOutUsers # {}) =>
            /\ resp' # NoResp
            /\ resp'.status = 401
            /\ resp'.msg = "LockedOut"
            /\ pc'[p] = "idle"
            /\ users' = users
            /\ jwts' = jwts
      /\ ((AllIdle /\ LockedOutUsers # {}) =>
            (jwts' = jwts /\ StoredNonces' = StoredNonces))]_vars

\* C1 witness: a login with the correct password has just been rejected
\* as locked out.
C1_Witness ==
  /\ resp # NoResp
  /\ resp.op = "login"
  /\ resp.msg = "LockedOut"
  /\ \E u \in LockedOutUsers : u.passwordHash = Hash(resp.arg)

\* C2: the save of a failed login leaves the persisted loginAttempts at
\* exactly 1 when the handler found the window expired (now >=
\* loginAttemptsExpiry), whatever the counter was, and at the loaded
\* counter plus 1 when it was inside the window; in both cases it leaves
\* loginAttemptsExpiry at now + lockoutWindow (now being the time of the
\* attempt; for a record nobody else wrote since the handler loaded it).
C2_FailedLoginCounts ==
  [][\A p \in Procs :
       (pc[p] = "login_fail_save" /\ pc'[p] = "idle") =>
         (\A u \in users :
            (u.id = local[p].loaded.id) =>
              (\E w \in users' :
                 /\ w.id = u.id
                 /\ w.loginAttempts =
                      IF local[p].t0 >= local[p].loaded.loginAttemptsExpiry
                        THEN 1
                        ELSE local[p].loaded.loginAttempts + 1
                 /\ ((u = local[p].loaded) =>
                       (w.loginAttemptsExpiry = local[p].t0 + LockoutWindow))))]_vars

\* C2 witness: a failed login that loaded the counter at maxAttempts after
\* the window had expired has been saved, and the stored counter is 1.
C2_Witness ==
  /\ resp # NoResp
  /\ resp.op = "login"
  /\ resp.msg = "BadCredentials"
  /\ local[resp.proc].loaded # NoUser
  /\ local[resp.proc].loaded.loginAttempts = MaxLoginAttempts
  /\ \E u \in users :
       /\ u.loginAttempts = 1
       /\ u.loginAttemptsExpiry = local[resp.proc].t0 + LockoutWindow

\* C5: whatever the interleaving of the load, push and save steps of the
\* logins of a user, the hash of the nonce of every token issued is in the
\* user's persisted loginNonces, so every issued token validates while it
\* is unexpired.
C5_ConcurrentLoginsKeepBothNonces ==
  \A token \in jwts :
    /\ \E u \in users :
         /\ u.id = token.id
         /\ \E i \in 1..Len(u.loginNonces) : u.loginNonces[i] = Hash(token.jti)
    /\ ((now < token.exp) => (checkLoginToken(token, TRUE) = "OK"))

\* C5 witness: a login that loaded the user before another login saved,
\* and saved after it, has completed; both tokens are issued and both
\* nonces are stored.
C5_Witness ==
  /\ resp # NoResp
  /\ resp.op = "login"
  /\ resp.status = 200
  /\ local[resp.proc].loaded.loginNonces = <<>>
  /\ Cardinality(jwts) = 2
  /\ \E u \in users : Len(u.loginNonces) = 2

\* The hash of the nonce of a token is in the persisted loginNonces of
\* the user the token names.
NonceStored(token) ==
  \E u \in users :
    /\ u.id = token.id
    /\ \E i \in 1..Len(u.loginNonces) : u.loginNonces[i] = Hash(token.jti)
\* This step is checkLoginToken rejecting or, for a route that only reads
\* req.login, accepting a correctly signed token: the response comes in
\* the step the request arrived in.
ValidationOf(token) ==
  /\ resp = NoResp
  /\ resp' # NoResp
  /\ resp'.op \in Endpoints
  /\ pc' = pc
  /\ resp'.arg = <<token.jti, TRUE>>

\* C3 (as claimed): for a correctly signed token issued by login, a
\* validation succeeds while the token is unexpired and its nonce hash is
\* stored, and once the nonce has been removed every later validation of
\* that token is rejected as "not logged in".
C3_RevokedTokenIsNotLoggedIn ==
  [][\A token \in jwts :
       /\ (ValidationOf(token) /\ now < token.exp /\ NonceStored(token)) =>
            (resp'.status # 401 /\ resp'.status # 500)
       /\ (ValidationOf(token) /\ ~NonceStored(token)) =>
            (resp'.status = 401 /\ resp'.msg = "NotLoggedIn")]_vars

\* C4 (as claimed): validating a correctly signed token whose expiry has
\* passed, for a user that exists, removes the nonce of the token from the
\* persisted loginNonces and answers "login expired".
C4_ExpiredTokenIsCleanedUp ==
  [][\A token \in jwts :
       (ValidationOf(token) /\ now >= token.exp
          /\ FindUsersById(token.id) # {}) =>
         /\ resp'.status = 401
         /\ resp'.msg = "LoginExpired"
         /\ ~NonceStored(token)']_vars

\* What holds of the code for C3: while the token is unexpired the two
\* halves of the claim hold, and a removed nonce never comes back.
RevokedUnexpiredTokenIsNotLoggedIn ==
  [][\A token \in jwts :
       /\ (ValidationOf(token) /\ now < token.exp /\ NonceStored(token)) =>
            (resp'.status # 401 /\ resp'.status # 500)
       /\ (ValidationOf(token) /\ now < token.exp /\ ~NonceStored(token)) =>
            (resp'.status = 401 /\ resp'.msg = "NotLoggedIn")
       /\ (~NonceStored(token) => ~NonceStored(token)')]_vars

\* C6 (as claimed): of the authenticate-reset calls made on one Requested
\* token with the correct slug, at most one returns success.
C6_AtMostOneAuthenticateSucceeds ==
  \A i \in 1..MaxTokens : hist[i].auth <= 1

\* The state of a password token.
Requested(t) == ~t.authenticated /\ ~t.spent
Authenticated(t) == t.authenticated /\ ~t.spent
Spent(t) == t.spent

\* C7: a stored password-reset token is created Requested with its slug
\* hash set, is never spent while unauthenticated, has no slug hash once
\* authenticated, never moves from Requested to Spent in one step, and
\* neither authenticated nor spent ever goes from true back to false.
C7_TokenMovesForward ==
  [][/\ \A t \in tokens' :
          /\ t.spent => t.authenticated
          /\ t.authenticated => t.authSlugHash = Null
          /\ (FindTokensById(t.id) = {}) =>
               (Requested(t) /\ t.authSlugHash # Null)
     /\ \A t \in tokens : \A w \in tokens' :
         (w.id = t.id) =>
           /\ t.authenticated => w.authenticated
           /\ t.spent => w.spent
           /\ Requested(t) => ~Spent(w)]_vars

\* C7 witness: a token that was authenticated and then spent by a password
\* change is in the store.
C7_Witness ==
  \E t \in tokens :
    /\ Spent(t)
    /\ t.authenticated
    /\ hist[t.id].auth >= 1
    /\ hist[t.id].change >= 1

\* C8 (as claimed): the store never holds two password-reset tokens for
\* one email address, and a request-reset that finds or meets a token of
\* another call for its email address fails with Conflict and creates
\* nothing, also when two request-reset calls interleave.
C8_OneTokenPerEmailOrConflict ==
  [][/\ \A t \in tokens' : \A w \in tokens' :
          (t.emailAddress = w.emailAddress) => (t.id = w.id)
     /\ \A p \in Procs :
         (/\ resp = NoResp
          /\ resp' # NoResp
          /\ resp'.proc = p
          /\ resp'.op = "request"
          /\ \E t \in tokens : /\ t.emailAddress = local[p].email
                               /\ t.id # local[p].tok.id) =>
           (resp'.status = 409 /\ resp'.msg = "Conflict" /\ tokens' = tokens)]_vars

\* What holds of the code for C8: at most one token per email address.
OneTokenPerEmail ==
  \A t \in tokens : \A w \in tokens :
    (t.emailAddress = w.emailAddress) => (t.id = w.id)

\* This step is the first step of a verify request handled by p.
VerifyBegins(p) ==
  /\ pc[p] = "idle"
  /\ resp = NoResp
  /\ \/ pc'[p] = "verify_save"
     \/ resp' # NoResp /\ resp'.proc = p /\ resp'.op = "verify"

\* C9: the verified flag of a stored user never goes from true back to
\* false (so it changes from false to true at most once), and a verify
\* call made when the user of that email address is verified fails as
\* NotFound, whatever slug and IP address it presents, and leaves the user
\* records unchanged.
C9_VerifiedOnceAndForAll ==
  [][/\ \A u \in users : \A w \in users' :
          (w.id = u.id /\ u.verified) => w.verified
     /\ \A p \in Procs :
         (VerifyBegins(p) /\ \E u \in users : u.verified) =>
           /\ resp' # NoResp
           /\ resp'.status = 404
           /\ resp'.msg = "NotFound"
           /\ pc'[p] = "idle"
           /\ users' = users]_vars

\* C9 witness: a verify presenting the slug and the address the user was
\* verified with has just failed as NotFound.
C9_Witness ==
  /\ resp # NoResp
  /\ resp.op = "verify"
  /\ resp.status = 404
  /\ \E u \in users :
       /\ u.verified
       /\ resp.arg[1] = u.id
       /\ resp.arg[2] \in RegisterIps

\* C10: every stored user that is not verified has its verification slug
\* hash, IP hash and expiry set, and every verified user has all three
\* null.
C10_VerificationFieldsFollowVerified ==
  \A u \in users :
    IF u.verified
      THEN /\ u.verificationSlugHash = Null
           /\ u.verificationIpHash = Null
           /\ u.verificationExpiry = Null
      ELSE /\ u.verificationSlugHash # Null
           /\ u.verificationIpHash # Null
           /\ u.verificationExpiry # Null

\* C10 witness: a user that has been verified by a verify call is stored.
C10_Witness ==
  /\ resp # NoResp
  /\ resp.op = "verify"
  /\ resp.status = 200
  /\ \E u \in users : u.verified /\ u.verificationExpiry = Null

\* The step in which p's authenticate handler leaves its token lookup.
AuthenticateChecks(p) == pc[p] = "authenticate_find" /\ pc'[p] # pc[p]

\* C11: authenticate-reset presenting a slug that does not match the slug
\* hash of the Requested token of the email address fails as Unauthorized
\* (401) and writes nothing: the tokens and the users are unchanged, so the
\* token is still Requested with the same slug hash and the correct slug
\* still matches it.
C11_WrongSlugIsUnauthorized ==
  [][\A p \in Procs : \A t \in tokens :
       (/\ AuthenticateChecks(p)
        /\ t.emailAddress = local[p].email
        /\ Requested(t)
        /\ t.authSlugHash # Hash(local[p].arg)) =>
         /\ resp' # NoResp
         /\ resp'.proc = p
         /\ resp'.status = 401
         /\ resp'.msg = "Unauthorized"
         /\ pc'[p] = "idle"
         /\ tokens' = tokens
         /\ users' = users
         /\ AuthenticateQuery(local[p].email)' = {t}
         /\ check(t, t.id)]_vars

\* C11 witness: an authenticate with a wrong slug has just failed as
\* Unauthorized, and the token is still Requested and matched by its slug.
C11_Witness ==
  /\ resp # NoResp
  /\ resp.op = "authenticate"
  /\ resp.status = 401
  /\ \E t \in tokens :
       /\ Requested(t)
       /\ t.emailAddress = local[resp.proc].email
       /\ resp.arg # t.id
       /\ check(t, t.id)

\* The step in which p's changePassword handler leaves its token lookup.
ChangeChecks(p) == pc[p] = "change_find" /\ pc'[p] # pc[p]
\* The response of p's handler when no token is found.
TokenNotFound(p, op) ==
  [proc |-> p, op |-> op, arg |-> local[p].arg, status |-> 404,
   msg |-> "NotFound"]

\* C12: authenticate-reset for an email address that has no Requested
\* token (its token is Authenticated or Spent, or it has none) and
\* change-password for an email address that has no Authenticated token
\* (its token is Requested or Spent, or it has none) fail with one and the
\* same NotFound result, and leave the tokens and the users unchanged.
C12_WrongStateIsNotFound ==
  [][\A p \in Procs :
       /\ (/\ AuthenticateChecks(p)
           /\ \A t \in FindTokensByEmail(local[p].email) : ~Requested(t)) =>
            /\ resp' = TokenNotFound(p, "authenticate")
            /\ tokens' = tokens
            /\ users' = users
       /\ (/\ ChangeChecks(p)
           /\ \A t \in FindTokensByEmail(local[p].email) : ~Authenticated(t)) =>
            /\ resp' = TokenNotFound(p, "changePassword")
            /\ tokens' = tokens
            /\ users' = users]_vars

\* C12 witness: a change-password has just failed as NotFound on a token
\* that was authenticated and spent by earlier calls.
C12_Witness ==
  /\ resp # NoResp
  /\ resp.op = "changePassword"
  /\ resp.status = 404
  /\ \E t \in FindTokensByEmail(local[resp.proc].email) :
       Spent(t) /\ hist[t.id].change >= 1

\* C13: when request-reset, respectively register, ends because the mail
\* could not be delivered, the token, respectively the user, that the call
\* inserted is not in the store, so what the store holds for that email
\* address was not left there by this call and a retry is not refused
\* with Conflict because of it.
C13_MailFailureRollsBack ==
  (resp # NoResp /\ resp.msg = "MailError") =>
    /\ (resp.op = "request") =>
         /\ local[resp.proc].tok # NoToken
         /\ FindTokensById(local[resp.proc].tok.id) = {}
         /\ \A t \in RequestQuery(local[resp.proc].email) :
              t.id # local[resp.proc].tok.id
    /\ (resp.op = "register") =>
         /\ local[resp.proc].doc # NoUser
         /\ FindUsersById(local[resp.proc].doc.id) = {}
         /\ \A u \in FindUsersByEmail(local[resp.proc].doc.emailAddress) :
              u.id # local[resp.proc].doc.id

\* C13 witness: a request-reset has just ended on a mail failure and the
\* email address has no token, although the call had inserted one.
C13_Witness ==
  /\ resp # NoResp
  /\ resp.op = "request"
  /\ resp.msg = "MailError"
  /\ nextTokenId > local[resp.proc].tok.id
  /\ RequestQuery(local[resp.proc].email) = {}

\* C14 (as claimed): when a change-password call has ended and the token
\* it loaded is stored as Spent, the user's persisted passwordHash is the
\* hash of the new password, not the old one.
C14_SpentWithPasswordReplaced ==
  (/\ resp # NoResp
   /\ resp.op = "changePassword"
   /\ local[resp.proc].tok # NoToken
   /\ \E t \in FindTokensById(local[resp.proc].tok.id) : Spent(t)) =>
    \A u \in FindUsersById(local[resp.proc].loaded.id) :
      u.passwordHash = Hash(resp.arg)

\* The step in which p's successful login saves the user and gets its token.
LoginSucceeds(p) ==
  /\ pc[p] = "login_save"
  /\ resp' # NoResp
  /\ resp'.proc = p
  /\ resp'.status = 200

\* C15 (as claimed): the save of a successful login leaves the persisted
\* loginAttempts and loginAttemptsExpiry of the user as they were, whether
\* or not the lockout window had expired when the login was made.
C15_LoginLeavesThrottleUntouched ==
  [][\A p \in Procs :
       LoginSucceeds(p) =>
         \A u \in users : \A w \in users' :
           (w.id = u.id) =>
             /\ w.loginAttempts = u.loginAttempts
             /\ w.loginAttemptsExpiry = u.loginAttemptsExpiry]_vars

\* What holds of the code for C15: a successful login never writes
\* loginAttemptsExpiry, and leaves loginAttempts as it was when the window
\* had not expired at the time of the login.
LoginInsideWindowLeavesThrottleUntouched ==
  [][\A p \in Procs :
       LoginSucceeds(p) =>
         \A u \in users : \A w \in users' :
           (w.id = u.id) =>
             /\ w.loginAttemptsExpiry = u.loginAttemptsExpiry
             /\ (local[p].t0 < local[p].loaded.loginAttemptsExpiry) =>
                  (w.loginAttempts = u.loginAttempts)]_vars

\* The "locked out" response of p, without the credential the model
\* records with a response.
LockedOutOutcome(p) ==
  [proc |-> p, op |-> "login", status |-> 401, msg |-> "LockedOut"]

\* C16: while the user is locked out, a login step has one and the same
\* outcome for every password it may present, correct or not: the
\* response is the "locked out" rejection, the handler ends in that step
\* (no password check is awaited) and users, tokens issued and nonces
\* handed out are unchanged.
C16_LockedOutHidesPassword ==
  [][\A p \in Procs :
       (LoginBegins(p) /\ LockedOutUsers # {}) =>
         /\ resp' # NoResp
         /\ [f \in {"proc", "op", "status", "msg"} |-> resp'[f]]
              = LockedOutOutcome(p)
         /\ resp'.arg \in Passwords
         /\ pc' = pc
         /\ local' = local
         /\ users' = users
         /\ jwts' = jwts
         /\ nextSecret' = nextSecret]_vars

\* C16 witness: a login with an incorrect password has just been rejected
\* as locked out and the counter stands where the lockout left it.
C16_Witness ==
  /\ resp # NoResp
  /\ resp.op = "login"
  /\ resp.msg = "LockedOut"
  /\ \E u \in LockedOutUsers :
       /\ u.passwordHash # Hash(resp.arg)
       /\ u.loginAttempts = MaxLoginAttempts

\* The step in which p's request handler leaves its token lookup.
RequestChecks(p) == pc[p] = "request_find" /\ pc'[p] # pc[p]
\* A step of the store alone: the tokens change and no handler moves.
StoreStep == tokens' # tokens /\ pc' = pc /\ resp' = resp
\* The password tokens constructed so far that the store holds no more.
VanishedTokens == {i \in 1..(nextTokenId - 1) : FindTokensById(i) = {}}

\* C17: the purge of a token, in whichever state it is, leaves no record
\* of it, and calls that look for a token of an email address that has
\* none in the store behave the same whether or not one existed before:
\* authenticate-reset and change-password fail as NotFound and write
\* nothing, and request-reset constructs and inserts a new Requested token.
C17_PurgedTokenNeverExisted ==
  [][/\ StoreStep =>
          /\ tokens' \subseteq tokens
          /\ \A t \in tokens \ tokens' :
               /\ now >= t.authExpiry + TokenExpiry
               /\ FindTokensByEmail(t.emailAddress)' = {}
     /\ \A p \in Procs :
          (FindTokensByEmail(local[p].email) = {}) =>
            /\ AuthenticateChecks(p) =>
                 (resp' = TokenNotFound(p, "authenticate") /\ tokens' = tokens)
            /\ ChangeChecks(p) =>
                 (resp' = TokenNotFound(p, "changePassword")
                    /\ tokens' = tokens /\ users' = users)
            /\ RequestChecks(p) =>
                 /\ pc'[p] = "request_save"
                 /\ Requested(local'[p].tok)
                 /\ local'[p].tok.authSlugHash # Null
            /\ (pc[p] = "request_save" /\ pc'[p] # pc[p]) =>
                 /\ pc'[p] = "request_mail"
                 /\ tokens' = {local[p].tok}]_vars

\* C17 witness: a token that had been authenticated was purged, and a new
\* request-reset for its email address has inserted a new Requested token.
C17_Witness ==
  \E i \in VanishedTokens :
    /\ hist[i].auth >= 1
    /\ \E t \in tokens :
         /\ t.id > i
         /\ Requested(t)
         /\ \E p \in Procs : pc[p] = "request_mail" /\ local[p].tok = t

\* C18 (as claimed): every failed login saved inside the lockout window is
\* counted: its save leaves the persisted loginAttempts one above what
\* the store held just before, also when another failed login of the same
\* user was saved between its load and its save.
C18_InterleavedFailuresAreCounted ==
  [][\A p \in Procs :
       (/\ pc[p] = "login_fail_save"
        /\ pc'[p] = "idle"
        /\ local[p].t0 < local[p].loaded.loginAttemptsExpiry) =>
         \A u \in FindUsersById(local[p].loaded.id) :
           (now < u.loginAttemptsExpiry) =>
             \E w \in users' :
               /\ w.id = u.id
               /\ w.loginAttempts = u.loginAttempts + 1]_vars

\* The step in which p's logoutAll saves and answers with success.
LogoutAllCompletes(p) ==
  /\ pc[p] = "logout_all_save"
  /\ resp' # NoResp
  /\ resp'.proc = p
  /\ resp'.status = 200

\* C19: when a logout-all completes, the nonce of no token issued to that
\* user is stored any more, and the nonce of a token, once not stored, is
\* never stored again, whichever logout or logout-all that loaded the user
\* earlier saves later; so none of these tokens validates from then on.
C19_LogoutAllRevokesEveryToken ==
  [][/\ \A p \in Procs :
          LogoutAllCompletes(p) =>
            \A token \in jwts :
              (token.id = local[p].loaded.id) => ~NonceStored(token)'
     /\ \A token \in jwts :
          ~NonceStored(token) =>
            /\ ~NonceStored(token)'
            /\ (checkLoginToken(token, TRUE) # "OK")']_vars

\* C19 witness: a logout that loaded the user before a logout-all and
\* saves after it has been refused; the one save that went through
\* removed both nonces.
C19_Witness ==
  /\ resp # NoResp
  /\ resp.op = "logout"
  /\ resp.msg = "VersionError"
  /\ local[resp.proc].doc.loginNonces # <<>>
  /\ \E u \in users : u.loginNonces = <<>> /\ u.v = 3

\* C20: for a user with no active session, generateLoginNonce followed by
\* removeLoginNonce with the nonce it returned leaves loginNonces empty;
\* and after removeLoginNonce(n), as for every nonce whose hash is not in
\* loginNonces, getLoginNonceIndex returns -1.
C20_GenerateThenRemoveIsEmpty ==
  \A p \in Procs :
    (pc[p] = "nonce_removed") =>
      /\ (/\ local[p].loaded.loginNonces = <<>>
          /\ local[p].nonce # 0
          /\ local[p].arg = local[p].nonce) =>
           (local[p].doc.loginNonces = <<>>)
      /\ getLoginNonceIndex(local[p].doc, local[p].arg) = -1
      /\ \A n \in Nonces :
           (\A i \in 1..Len(local[p].doc.loginNonces) :
              local[p].doc.loginNonces[i] # Hash(n)) =>
             (getLoginNonceIndex(local[p].doc, n) = -1)

\* C20 witness: on a user with no session, the nonce generateLoginNonce
\* returned has been removed again and loginNonces is empty.
C20_Witness ==
  \E p \in Procs :
    /\ pc[p] = "nonce_removed"
    /\ local[p].loaded.loginNonces = <<>>
    /\ local[p].nonce # 0
    /\ local[p].arg = local[p].nonce
    /\ local[p].doc.loginNonces = <<>>

\* The step in which p's logout saves and answers with success.
LogoutCompletes(p) ==
  /\ pc[p] = "logout_save"
  /\ resp' # NoResp
  /\ resp'.proc = p
  /\ resp'.status = 200

\* C21: a logout that completes leaves the persisted loginNonces of the
\* user as they were stored, less the one entry that matches the nonce of
\* the token presented, so every other token whose nonce was stored still
\* has it stored; and removeLoginNonce with a nonce that matches no entry
\* returns the document unchanged.
C21_LogoutRemovesOneNonce ==
  [][/\ \A p \in Procs :
          LogoutCompletes(p) =>
            /\ \A u \in FindUsersById(local[p].loaded.id) :
                 /\ getLoginNonceIndex(u, local[p].arg[1]) # -1
                 /\ \E w \in users' :
                      /\ w.id = u.id
                      /\ w.loginNonces =
                           Splice(u.loginNonces,
                                  getLoginNonceIndex(u, local[p].arg[1]))
                      /\ Len(w.loginNonces) = Len(u.loginNonces) - 1
            /\ \A token \in jwts :
                 (token.jti # local[p].arg[1] /\ NonceStored(token)) =>
                   NonceStored(token)'
     /\ \A u \in users : \A n \in Nonces :
          (getLoginNonceIndex(u, n) = -1) => (removeLoginNonce(u, n) = u)]_vars

\* C21 witness: a logout has just completed, one nonce is left in the
\* store and the token of the other device validates.
C21_Witness ==
  /\ resp # NoResp
  /\ resp.op = "logout"
  /\ resp.status = 200
  /\ \E u \in users : Len(u.loginNonces) = 1
  /\ \E token \in jwts :
       /\ token.jti # resp.arg[1]
       /\ checkLoginToken(token, TRUE) = "OK"

\* C22 (as claimed): of the change-password calls made on one
\* Authenticated token, at most one returns success.
C22_AtMostOneChangeSucceeds ==
  \A i \in 1..MaxTokens : hist[i].change <= 1

\* C23: the persisted loginAttempts of every user stays between 0 and
\* maxAttempts: a login that finds the counter at maxAttempts inside the
\* window is rejected and writes nothing, and one that finds the window
\* expired counts from 0 again (it saves 0 with a correct password and 1
\* with a wrong one).
C23_LoginAttemptsBounded ==
  [][/\ \A u \in users \cup users' :
          u.loginAttempts >= 0 /\ u.loginAttempts <= MaxLoginAttempts
     /\ \A p \in Procs : \A u \in users :
          (LoginBegins(p) /\ u.verified) =>
            /\ (u.loginAttempts >= MaxLoginAttempts
                  /\ now < u.loginAttemptsExpiry) =>
                 (pc'[p] = "idle" /\ users' = users)
            /\ (now >= u.loginAttemptsExpiry) =>
                 /\ pc'[p] = "login_save" => local'[p].doc.loginAttempts = 0
                 /\ pc'[p] = "login_fail_save" =>
                      local'[p].doc.loginAttempts = 1]_vars

\* C23 witness: a login with the correct password found the counter at
\* maxAttempts after the window had expired, and the stored counter is 0.
C23_Witness ==
  /\ resp # NoResp
  /\ resp.op = "login"
  /\ resp.status = 200
  /\ local[resp.proc].loaded.loginAttempts = MaxLoginAttempts
  /\ \E u \in users : u.loginAttempts = 0

\* C24: a stored user that is not verified has no login nonce, and every
\* token issued names a user that, while stored, is verified.
C24_UnverifiedHasNoSession ==
  /\ \A u \in users : ~u.verified => u.loginNonces = <<>>
  /\ \A token \in jwts : \A u \in FindUsersById(token.id) : u.verified

\* C24 witness: a login with the password of an account that is stored
\* but not verified has just been rejected.
C24_Witness ==
  /\ resp # NoResp
  /\ resp.op = "login"
  /\ resp.status = 401
  /\ \E u \in users :
       /\ ~u.verified
       /\ u.passwordHash = Hash(resp.arg)
       /\ u.loginNonces = <<>>

====
